---- MODULE Spec2Model ----
(***************************************************************************)
(* Model of the GET /html handler of mdconvwk (src/src/index.ts) together *)
(* with the app-level error handler (app.onError) and the parts of Hono   *)
(* and the Fetch API that decide the response: c.text header merging,     *)
(* c.json, and the Response constructor's null-body-status rule.          *)
(* One behaviour is one request; the Fetcher and the Markdown Converter   *)
(* are the environment and answer nondeterministically.                   *)
(***************************************************************************)
EXTENDS Integers, Sequences, FiniteSets, TLC

(***************************************************************************)
(* Strings as sequences of one-character strings                          *)
(***************************************************************************)
RECURSIVE Join(_)
Join(s) == IF s = <<>> THEN "" ELSE Head(s) \o Join(Tail(s))

Includes(s, p) ==
    \E i \in 0..(Len(s) - Len(p)) : SubSeq(s, i + 1, i + Len(p)) = p

Upper == {"A","B","C","D","E","F","G","H","I","J","K","L","M","N","O","P",
          "Q","R","S","T","U","V","W","X","Y","Z"}
LowerC == {"a","b","c","d","e","f","g","h","i","j","k","l","m","n","o","p",
           "q","r","s","t","u","v","w","x","y","z"}
Digits == {"0","1","2","3","4","5","6","7","8","9"}
ToLowerMap == [c \in Upper |->
    CASE c = "A" -> "a" [] c = "B" -> "b" [] c = "C" -> "c" [] c = "D" -> "d"
      [] c = "E" -> "e" [] c = "F" -> "f" [] c = "G" -> "g" [] c = "H" -> "h"
      [] c = "I" -> "i" [] c = "J" -> "j" [] c = "K" -> "k" [] c = "L" -> "l"
      [] c = "M" -> "m" [] c = "N" -> "n" [] c = "O" -> "o" [] c = "P" -> "p"
      [] c = "Q" -> "q" [] c = "R" -> "r" [] c = "S" -> "s" [] c = "T" -> "t"
      [] c = "U" -> "u" [] c = "V" -> "v" [] c = "W" -> "w" [] c = "X" -> "x"
      [] c = "Y" -> "y" [] OTHER -> "z"]
ToLower(s) == [i \in 1..Len(s) |-> IF s[i] \in Upper THEN ToLowerMap[s[i]] ELSE s[i]]

(***************************************************************************)
(* WHATWG URL parsing, the part `new URL(s)` (no base) uses to decide      *)
(* whether s parses and what its protocol is.                             *)
(***************************************************************************)
SpecialSchemes == {<<"h","t","t","p">>, <<"h","t","t","p","s">>, <<"f","t","p">>,
                   <<"w","s">>, <<"w","s","s">>, <<"f","i","l","e">>}

ColonPos(s) == IF \E i \in 1..Len(s) : s[i] = ":"
               THEN CHOOSE i \in 1..Len(s) : s[i] = ":" /\ \A j \in 1..(i-1) : s[j] # ":"
               ELSE 0

ValidScheme(sch) ==
    /\ Len(sch) >= 1
    /\ sch[1] \in Upper \cup LowerC
    /\ \A i \in 1..Len(sch) : sch[i] \in Upper \cup LowerC \cup Digits \cup {"+","-","."}

\* Input preprocessing: leading and trailing C0 controls and spaces are
\* stripped, then every tab, LF and CR is removed. (Of the C0 controls only
\* tab, LF, FF and CR occur in the modelled alphabet.)
C0OrSpace == {" ", "\t", "\n", "\f", "\r"}
RECURSIVE TrimLeading(_)
TrimLeading(s) == IF s # <<>> /\ Head(s) \in C0OrSpace THEN TrimLeading(Tail(s)) ELSE s
RECURSIVE TrimTrailing(_)
TrimTrailing(s) == IF s # <<>> /\ s[Len(s)] \in C0OrSpace
                   THEN TrimTrailing(SubSeq(s, 1, Len(s) - 1)) ELSE s
IsTabOrNewline(c) == c \in {"\t", "\n", "\r"}
Preprocess(s) == SelectSeq(TrimTrailing(TrimLeading(s)), LAMBDA c : ~IsTabOrNewline(c))

\* Leading "/" and "\" are skipped after the scheme of a special URL;
\* the authority runs to the next "/", "?", "#", or "\" for special URLs.
RECURSIVE StripSlashes(_)
StripSlashes(s) == IF s # <<>> /\ Head(s) \in {"/", "\\"} THEN StripSlashes(Tail(s)) ELSE s
RECURSIVE HostPart(_)
HostPart(s) == IF s = <<>> \/ Head(s) \in {"/", "?", "#", "\\"} THEN <<>>
               ELSE <<Head(s)>> \o HostPart(Tail(s))
RECURSIVE HostPartNS(_)
HostPartNS(s) == IF s = <<>> \/ Head(s) \in {"/", "?", "#"} THEN <<>>
                 ELSE <<Head(s)>> \o HostPartNS(Tail(s))

FirstPos(s, c) == IF \E i \in 1..Len(s) : s[i] = c
                  THEN CHOOSE i \in 1..Len(s) : s[i] = c /\ \A j \in 1..(i-1) : s[j] # c
                  ELSE 0
LastPos(s, c) == IF \E i \in 1..Len(s) : s[i] = c
                 THEN CHOOSE i \in 1..Len(s) : s[i] = c /\ \A j \in (i+1)..Len(s) : s[j] # c
                 ELSE 0

\* Position of the first ":" outside "[...]" (host state's insideBrackets)
RECURSIVE ColonOutside(_, _, _)
ColonOutside(s, i, inside) ==
    IF i > Len(s) THEN 0
    ELSE IF s[i] = ":" /\ ~inside THEN i
    ELSE ColonOutside(s, i + 1, IF s[i] = "[" THEN TRUE ELSE IF s[i] = "]" THEN FALSE ELSE inside)

RECURSIVE SplitOn(_, _)
SplitOn(s, c) ==
    LET p == FirstPos(s, c) IN
    IF p = 0 THEN <<s>> ELSE <<SubSeq(s, 1, p - 1)>> \o SplitOn(SubSeq(s, p + 1, Len(s)), c)

\* Code points of the modelled alphabet
Printable == <<" ","!","\"","#","$","%","&","'","(",")","*","+",",","-",".","/",
               "0","1","2","3","4","5","6","7","8","9",":",";","<","=",">","?",
               "@","A","B","C","D","E","F","G","H","I","J","K","L","M","N","O",
               "P","Q","R","S","T","U","V","W","X","Y","Z","[","\\","]","^","_",
               "<backtick>","a","b","c","d","e","f","g","h","i","j","k","l","m","n","o",
               "p","q","r","s","t","u","v","w","x","y","z","{","|","}","~">>
CodeOf(c) == CASE c = "\t" -> 9 [] c = "\n" -> 10 [] c = "\f" -> 12 [] c = "\r" -> 13
               [] OTHER -> 31 + (CHOOSE i \in 1..Len(Printable) : Printable[i] = c)

HexDigits == Digits \cup {"a","b","c","d","e","f","A","B","C","D","E","F"}
HexVal(c) == CASE c \in Digits -> CodeOf(c) - 48
               [] c \in {"a","b","c","d","e","f"} -> CodeOf(c) - 87
               [] OTHER -> CodeOf(c) - 55
DigitValue(c) == CodeOf(c) - 48
\* Decimal value, saturated at 100000 (only compared with 65535 and 255)
RECURSIVE Num(_)
Num(s) == IF s = <<>> THEN 0
          ELSE LET v == Num(SubSeq(s, 1, Len(s) - 1)) * 10 + DigitValue(s[Len(s)]) IN
               IF v > 100000 THEN 100000 ELSE v

\* Port: empty, or ASCII digits whose value is at most 65535
PortOk(p) == p = <<>> \/ ((\A i \in 1..Len(p) : p[i] \in Digits) /\ Num(p) <= 65535)

\* Percent-decoding to bytes
RECURSIVE PercentDecode(_)
PercentDecode(s) ==
    IF s = <<>> THEN <<>>
    ELSE IF Head(s) = "%" /\ Len(s) >= 3 /\ s[2] \in HexDigits /\ s[3] \in HexDigits
    THEN <<16 * HexVal(s[2]) + HexVal(s[3])>> \o PercentDecode(SubSeq(s, 4, Len(s)))
    ELSE <<CodeOf(Head(s))>> \o PercentDecode(Tail(s))

\* UTF-8 decode without BOM succeeds without replacement characters
IsCont(b) == b \in 128..191
RECURSIVE Utf8Ok(_)
Utf8Ok(b) ==
    IF b = <<>> THEN TRUE
    ELSE LET c == Head(b) IN
    IF c < 128 THEN Utf8Ok(Tail(b))
    ELSE IF c \in 194..223
    THEN Len(b) >= 2 /\ IsCont(b[2]) /\ Utf8Ok(SubSeq(b, 3, Len(b)))
    ELSE IF c \in 224..239
    THEN Len(b) >= 3 /\ IsCont(b[3])
         /\ b[2] \in (IF c = 224 THEN 160..191 ELSE IF c = 237 THEN 128..159 ELSE 128..191)
         /\ Utf8Ok(SubSeq(b, 4, Len(b)))
    ELSE IF c \in 240..244
    THEN Len(b) >= 4 /\ IsCont(b[3]) /\ IsCont(b[4])
         /\ b[2] \in (IF c = 240 THEN 144..191 ELSE IF c = 244 THEN 128..143 ELSE 128..191)
         /\ Utf8Ok(SubSeq(b, 5, Len(b)))
    ELSE FALSE

AsciiLower(b) == [i \in 1..Len(b) |-> IF b[i] \in 65..90 THEN b[i] + 32 ELSE b[i]]

\* Forbidden domain code points: C0 controls, space, # % / : < > ? @ [ \ ] ^ |
\* and DEL
ForbiddenDomainCodes == (0..32) \cup {35, 37, 47, 58, 60, 62, 63, 64, 91, 92, 93, 94, 124, 127}
\* "xn--" as codes
XnPrefix == <<120, 110, 45, 45>>

\* IPv4 number parser over code points; the value is kept as [hi, lo] with
\* value = hi * 65536 + lo, hi saturated, so that 2^32 and above compare right.
IsDecCode(c) == c \in 48..57
IsHexCode(c) == c \in 48..57 \cup 97..102
CodeVal(c) == IF c \in 48..57 THEN c - 48 ELSE c - 87
RECURSIVE NumVal(_, _)
NumVal(p, r) ==
    IF p = <<>> THEN [hi |-> 0, lo |-> 0]
    ELSE LET v == NumVal(SubSeq(p, 1, Len(p) - 1), r)
             low == v.lo * r + CodeVal(p[Len(p)])
             high == v.hi * r + low \div 65536 IN
         [hi |-> IF high > 1048576 THEN 1048576 ELSE high, lo |-> low % 65536]
IPv4Number(p) ==
    IF p = <<>> THEN [ok |-> FALSE, v |-> [hi |-> 0, lo |-> 0]]
    ELSE LET hex == Len(p) >= 2 /\ p[1] = 48 /\ p[2] = 120
             oct == ~hex /\ Len(p) >= 2 /\ p[1] = 48
             rest == IF hex THEN SubSeq(p, 3, Len(p)) ELSE IF oct THEN Tail(p) ELSE p
             r == IF hex THEN 16 ELSE IF oct THEN 8 ELSE 10
             okd == \A i \in 1..Len(rest) :
                       IF hex THEN IsHexCode(rest[i]) ELSE IF oct THEN rest[i] \in 48..55
                       ELSE IsDecCode(rest[i]) IN
         [ok |-> okd, v |-> IF okd THEN NumVal(rest, r) ELSE [hi |-> 0, lo |-> 0]]

DropEmptyLast(parts) ==
    IF Len(parts) > 1 /\ parts[Len(parts)] = <<>> THEN SubSeq(parts, 1, Len(parts) - 1) ELSE parts

EndsInNumber(d) ==
    LET parts == SplitOn(d, 46)
        ps == IF parts[Len(parts)] = <<>> THEN SubSeq(parts, 1, Len(parts) - 1) ELSE parts IN
    IF ps = <<>> THEN FALSE
    ELSE LET last == ps[Len(ps)] IN
         (last # <<>> /\ \A i \in 1..Len(last) : IsDecCode(last[i])) \/ IPv4Number(last).ok

GeLimit(v, n) ==   \* v >= 256^(5 - n)
    CASE n = 1 -> v.hi >= 65536
      [] n = 2 -> v.hi >= 256
      [] n = 3 -> v.hi >= 1
      [] OTHER -> v.hi >= 1 \/ v.lo >= 256

IPv4Ok(d) ==
    LET ps == DropEmptyLast(SplitOn(d, 46))
        n == Len(ps) IN
    /\ n <= 4
    /\ \A i \in 1..n : IPv4Number(ps[i]).ok
    /\ \A i \in 1..(n - 1) : LET v == IPv4Number(ps[i]).v IN v.hi = 0 /\ v.lo <= 255
    /\ ~GeLimit(IPv4Number(ps[n]).v, n)

\* Domain host: percent-decode, UTF-8 decode (a malformed sequence becomes
\* U+FFFD, which domain to ASCII rejects), domain to ASCII (UTS #46), then the
\* forbidden domain code point check and the IPv4 parser when the domain ends
\* in a number. The result is the set of values the host parser can return.
\* For an ASCII domain without an "xn--" label, UTS #46 only lower-cases, so
\* the result is exact. An ASCII forbidden code point, or a label that is
\* exactly "xn--" (empty Punycode), fails whatever the other labels are.
\* For any other domain, UTS #46 mapping of non-ASCII code points and Punycode
\* decoding of "xn--" labels decide; the model leaves both outcomes open.
HasXnLabel(labels) ==
    \E i \in 1..Len(labels) : Len(labels[i]) >= 4 /\ SubSeq(labels[i], 1, 4) = XnPrefix
DomainResults(h) ==
    LET bytes == PercentDecode(h)
        d == AsciiLower(bytes)
        labels == SplitOn(d, 46) IN
    IF \/ ~Utf8Ok(bytes)
       \/ \E i \in 1..Len(d) : d[i] \in ForbiddenDomainCodes
       \/ \E i \in 1..Len(labels) : labels[i] = XnPrefix
    THEN {FALSE}
    ELSE IF (\A i \in 1..Len(d) : d[i] < 128) /\ ~HasXnLabel(labels)
    THEN {EndsInNumber(d) => IPv4Ok(d)}
    ELSE {TRUE, FALSE}

\* IPv4 part of an IPv6 literal: exactly four decimal numbers 0..255 without
\* leading zeros.
V4InV6Ok(s) ==
    LET ps == SplitOn(s, ".") IN
    /\ Len(ps) = 4
    /\ \A i \in 1..4 : /\ ps[i] # <<>>
                       /\ \A j \in 1..Len(ps[i]) : ps[i][j] \in Digits
                       /\ (Len(ps[i]) > 1 => ps[i][1] # "0")
                       /\ Num(ps[i]) <= 255

RECURSIVE HexRun(_, _)
HexRun(s, n) == IF n < 4 /\ n < Len(s) /\ s[n + 1] \in HexDigits THEN HexRun(s, n + 1) ELSE n

\* IPv6 parser main loop: s is the rest of the input, pi the piece index,
\* comp whether "::" was seen.
RECURSIVE V6Loop(_, _, _)
V6Loop(s, pi, comp) ==
    IF s = <<>> THEN comp \/ pi = 8
    ELSE IF pi = 8 THEN FALSE
    ELSE IF Head(s) = ":" THEN ~comp /\ V6Loop(Tail(s), pi + 1, TRUE)
    ELSE LET len == HexRun(s, 0)
             rest == SubSeq(s, len + 1, Len(s)) IN
         IF rest # <<>> /\ Head(rest) = "."
         THEN len # 0 /\ pi <= 6 /\ V4InV6Ok(s) /\ (comp \/ pi + 2 = 8)
         ELSE IF rest # <<>> /\ Head(rest) = ":"
         THEN Tail(rest) # <<>> /\ V6Loop(Tail(rest), pi + 1, comp)
         ELSE IF rest # <<>> THEN FALSE
         ELSE comp \/ pi + 1 = 8
IPv6Ok(x) ==
    IF x # <<>> /\ Head(x) = ":"
    THEN Len(x) >= 2 /\ x[2] = ":" /\ V6Loop(SubSeq(x, 3, Len(x)), 1, TRUE)
    ELSE V6Loop(x, 0, FALSE)

\* Forbidden host code points (opaque hosts)
ForbiddenHost == {" ", "\t", "\n", "\r", "#", "/", ":", "<", ">", "?", "@", "[", "\\", "]", "^", "|"}

\* Host parser: IPv6 literal, opaque host (non-special) or domain (special);
\* the set of results it can give.
HostResults(h, special) ==
    IF h # <<>> /\ Head(h) = "["
    THEN {h[Len(h)] = "]" /\ Len(h) >= 2 /\ IPv6Ok(SubSeq(h, 2, Len(h) - 1))}
    ELSE IF ~special THEN {\A i \in 1..Len(h) : h[i] \notin ForbiddenHost}
    ELSE DomainResults(h)

\* Authority: userinfo up to the last "@", then host and optional port.
AuthorityResults(auth, special) ==
    LET at == LastPos(auth, "@")
        hp == IF at = 0 THEN auth ELSE SubSeq(auth, at + 1, Len(auth))
        c == ColonOutside(hp, 1, FALSE)
        host == IF c = 0 THEN hp ELSE SubSeq(hp, 1, c - 1)
        port == IF c = 0 THEN <<>> ELSE SubSeq(hp, c + 1, Len(hp)) IN
    IF at # 0 /\ hp = <<>> THEN {FALSE}
    ELSE IF host = <<>> THEN {~special /\ c = 0}
    ELSE IF ~PortOk(port) THEN {FALSE}
    ELSE HostResults(host, special)

FileScheme == <<"f","i","l","e">>
IsDriveLetter(h) == Len(h) = 2 /\ h[1] \in Upper \cup LowerC /\ h[2] \in {":", "|"}
\* file: URLs: after two slashes comes a host without port or credentials.
FileResults(rest) ==
    IF Len(rest) >= 2 /\ rest[1] \in {"/", "\\"} /\ rest[2] \in {"/", "\\"}
    THEN LET h == HostPart(SubSeq(rest, 3, Len(rest))) IN
         IF h = <<>> \/ IsDriveLetter(h) THEN {TRUE} ELSE HostResults(h, TRUE)
    ELSE {TRUE}

NoParse == [ok |-> FALSE, protocol |-> <<"<none>">>]

\* new URL(s): the set of results [ok, protocol] it can give (a single one
\* unless domain to ASCII decides, see DomainResults).
ParseURL(s0) ==
    LET s == Preprocess(s0)
        p == ColonPos(s) IN
    IF p = 0 THEN {[ok |-> FALSE, protocol |-> <<>>]}
    ELSE LET sch == ToLower(SubSeq(s, 1, p - 1))
             rest == SubSeq(s, p + 1, Len(s))
             special == sch \in SpecialSchemes
             oks == IF ~ValidScheme(SubSeq(s, 1, p - 1)) THEN {FALSE}
                    ELSE IF sch = FileScheme THEN FileResults(rest)
                    ELSE IF special THEN AuthorityResults(HostPart(StripSlashes(rest)), TRUE)
                    ELSE IF Len(rest) >= 2 /\ SubSeq(rest, 1, 2) = <<"/","/">>
                    THEN AuthorityResults(HostPartNS(SubSeq(rest, 3, Len(rest))), FALSE)
                    ELSE {TRUE} IN
         {IF ok THEN [ok |-> TRUE, protocol |-> sch \o <<":">>]
          ELSE [ok |-> FALSE, protocol |-> <<>>] : ok \in oks}

\* Line 119: `url.protocol === "http:" || url.protocol === "https:"`
IsHttpURL_HttpsOnly(u) == u.ok /\ u.protocol = <<"h","t","t","p","s",":">>
IsHttpURL_AnyScheme(u) == u.ok
IsHttpURL(u) ==
    u.ok /\ (u.protocol = <<"h","t","t","p",":">> \/ u.protocol = <<"h","t","t","p","s",":">>)

\* isValidUrl (src/src/index.ts:116-123): the set of values it can return;
\* a parse failure (new URL throws) gives false.
isValidUrl(s) == {IsHttpURL(u) : u \in ParseURL(s)}

\* `new URL(urlParam).hostname` is only used for the converter's input name.

(***************************************************************************)
(* Inputs                                                                  *)
(***************************************************************************)
Absent == <<"<absent>">>   \* searchParams.get("url") returned null

SchemeParts == {<<>>, <<"h","t","t","p">>, <<"h","t","t","p","s">>, <<"H","T","T","P">>,
                <<"f","t","p">>, <<"1","h">>}
ColonParts == {<<>>, <<":">>}
SlashParts == {<<>>, <<"/","/">>}
HostParts  == {<<>>, <<"a">>}
HttpSlashes == <<"h","t","t","p",":","/","/">>
\* Strings that exercise preprocessing and host/port validation
ExtraUrlInputs == {<<" ">> \o HttpSlashes \o <<"a">>,
                   <<"h","t","\t","t","p",":","/","/","a">>,
                   HttpSlashes \o <<"a"," ","b">>,
                   HttpSlashes \o <<"a","@">>,
                   HttpSlashes \o <<":","8","0">>,
                   HttpSlashes \o <<"a",":","9","9","9","9","9">>,
                   HttpSlashes \o <<"a",":","8","0">>,
                   HttpSlashes \o <<"[",":",":","1">>,
                   HttpSlashes \o <<"[",":",":","1","]">>,
                   HttpSlashes \o <<"%">>,
                   HttpSlashes \o <<"u","@","a">>,
                   <<"\f">> \o HttpSlashes \o <<"a">>,
                   HttpSlashes \o <<"a",".","1">>,
                   HttpSlashes \o <<"[",":",":","f","f","f","f",":","1",".","2",".","3",".","4","]">>,
                   HttpSlashes \o <<"a","%","2","0","b">>,
                   <<"f","i","l","e",":","/","/","a",":","8","0">>,
                   HttpSlashes \o <<"x","n","-","-","a">>,
                   HttpSlashes \o <<"x","n","-","-">>}
UrlInputs == {Absent} \cup ExtraUrlInputs \cup
    {sc \o co \o sl \o ho : sc \in SchemeParts, co \in ColonParts, sl \in SlashParts, ho \in HostParts}

UrlString(u) == Join(u)

\* `if (!urlParam)`: null and "" are falsy
IsPresent_NullOnly(u) == u # Absent
IsPresent(u) == u # Absent /\ u # <<>>

(***************************************************************************)
(* Fetcher and converter outcomes                                          *)
(***************************************************************************)
\* Kinds of thrown values: a DOMException named AbortError, a DOMException
\* with another name, an Error whose name is "AbortError" but which is not a
\* DOMException, and a TypeError.
ExcKinds == {"DOMAbort", "DOMOther", "ErrorAbortName", "TypeError"}

CT_TextHtml == <<"t","e","x","t","/","h","t","m","l">>
CT_TextHtmlCharset == CT_TextHtml \o <<";"," ","c","h","a","r","s","e","t","=","u","t","f","-","8">>
CT_Json == <<"a","p","p","l","i","c","a","t","i","o","n","/","j","s","o","n">>
CT_UpperHtml == <<"T","E","X","T","/","H","T","M","L">>
NoHeader == <<"<null>">>   \* resp.headers.get("Content-Type") returned null
ContentTypes == {NoHeader, CT_TextHtml, CT_TextHtmlCharset, CT_Json, CT_UpperHtml}

UpstreamNotOk == {304, 404, 500}
StatusTexts == {"Not Found", "Oops"}

MaxBodyLength == 10 * 1024 * 1024
BodyLengths == {13, MaxBodyLength, MaxBodyLength + 1}

FetchResults ==
    [kind : {"reject"}, exc : ExcKinds] \cup
    [kind : {"response"}, ok : {FALSE}, status : UpstreamNotOk, statusText : StatusTexts,
     ctype : {NoHeader}] \cup
    [kind : {"response"}, ok : {TRUE}, status : {200}, statusText : {"OK"},
     ctype : ContentTypes]

DataStrings == {"# Test", ""}
ConvResults ==
    [kind : {"reject"}, exc : ExcKinds] \cup
    [kind : {"null", "undefined"}] \cup
    [kind : {"array"}, items : {<<>>} \cup {<<d>> : d \in DataStrings}
                                \cup {<<d, e>> : d \in DataStrings, e \in {"# Other"}}]

(***************************************************************************)
(* Hono context responses                                                  *)
(***************************************************************************)
TEXT_PLAIN == "text/plain; charset=UTF-8"
NoHeaders == [k \in {} |-> ""]
SetHeaders(h, new) == [k \in DOMAIN h \cup DOMAIN new |-> IF k \in DOMAIN new THEN new[k] ELSE h[k]]
HeaderMap(k1, v1, k2, v2) == [k \in {k1, k2} |-> IF k = k1 THEN v1 ELSE v2]

\* c.text(text, { headers }): the init's headers are set first, then the
\* default Content-Type is set over them.
HonoText_ArgWins(text, argHeaders) ==
    [status |-> 200, kind |-> "text", text |-> text, error |-> "", jstatus |-> 0,
     headers |-> SetHeaders(SetHeaders(NoHeaders, [k \in {"Content-Type"} |-> TEXT_PLAIN]),
                            argHeaders)]
HonoText(text, argHeaders) ==
    [status |-> 200, kind |-> "text", text |-> text, error |-> "", jstatus |-> 0,
     headers |-> SetHeaders(SetHeaders(NoHeaders, argHeaders),
                            [k \in {"Content-Type"} |-> TEXT_PLAIN])]

\* Statuses whose Response must have a null body (Fetch standard)
NullBodyStatus == {101, 103, 204, 205, 304}

\* timing() middleware (line 9): after the handler or app.onError has
\* produced c.res, it appends a Server-Timing header (its duration is
\* abstracted as N).
SERVER_TIMING == "total;dur=N;desc=\"Total Response Time\""
WithTiming(r) ==
    [r EXCEPT !.headers = SetHeaders(r.headers, [k \in {"Server-Timing"} |-> SERVER_TIMING])]

\* c.json(obj, status); new Response(body, {status}) throws a TypeError when
\* status is a null body status.
\* and a RangeError when status is outside 200..599.
HonoJsonThrows(status) == status \in NullBodyStatus \/ status < 200 \/ status > 599
HonoJson(error, status) ==
    [status |-> status, kind |-> "json", text |-> "", error |-> error, jstatus |-> status,
     headers |-> [k \in {"Content-Type"} |-> "application/json"]]

NoResponse == [status |-> 0, kind |-> "none", text |-> "", error |-> "", jstatus |-> 0,
               headers |-> NoHeaders]

NoExc == [type |-> "none", status |-> 0, message |-> ""]
HTTPException(status, msg) == [type |-> "HTTP", status |-> status, message |-> msg]
Thrown(kind) == [type |-> kind, status |-> 0, message |-> ""]

(***************************************************************************)
(* State                                                                   *)
(***************************************************************************)
VARIABLES
    urlParam,    \* url.searchParams.get("url")
    pc,          \* position of the request
    fetchResp,   \* value the fetch promise settled with
    bodyLen,     \* body.length after resp.text()
    markdown,    \* value the toMarkdown promise settled with
    exc,         \* value thrown and being propagated
    response,    \* response sent to the client
    responses,   \* number of responses sent
    fetchCalls, textCalls, convCalls,
    stages,      \* pipeline stages run, in order
    failedAt,    \* stage that failed, "none" if none
    thrown,      \* kind of the value a collaborator call threw, "none" if none
    parsed       \* result of new URL(urlParam) in isValidUrl, NoParse if not run

vars == <<urlParam, pc, fetchResp, bodyLen, markdown, exc, response, responses,
          fetchCalls, textCalls, convCalls, stages, failedAt, thrown, parsed>>

NoFetch == [kind |-> "none"]
NoConv == [kind |-> "none"]

Init ==
    /\ urlParam \in UrlInputs
    /\ pc = "start"
    /\ fetchResp = NoFetch
    /\ bodyLen = 0
    /\ markdown = NoConv
    /\ exc = NoExc
    /\ response = NoResponse
    /\ responses = 0
    /\ fetchCalls = 0 /\ textCalls = 0 /\ convCalls = 0
    /\ stages = <<>>
    /\ failedAt = "none"
    /\ thrown = "none"
    /\ parsed = NoParse

\* Lines 12-26: parameter presence, URL validation, then `fetch(urlParam)`
\* is invoked and the handler suspends on it.
Validate ==
    /\ pc = "start"
    /\ IF ~IsPresent(urlParam)
       THEN /\ exc' = HTTPException(400, "URL parameter is required")
            /\ pc' = "onError"
            /\ stages' = <<"presence">>
            /\ failedAt' = "presence"
            /\ UNCHANGED <<fetchCalls, parsed>>
       ELSE \E u \in ParseURL(urlParam) :
            /\ parsed' = u
            /\ IF ~IsHttpURL(u)
               THEN /\ exc' = HTTPException(400, "Invalid URL format. Must be a valid HTTP or HTTPS URL")
                    /\ pc' = "onError"
                    /\ stages' = <<"presence", "validate">>
                    /\ failedAt' = "validate"
                    /\ UNCHANGED fetchCalls
               ELSE /\ pc' = "awaitFetch"
                    /\ fetchCalls' = fetchCalls + 1
                    /\ stages' = <<"presence", "validate", "fetch">>
                    /\ UNCHANGED <<exc, failedAt>>
    /\ UNCHANGED <<urlParam, fetchResp, bodyLen, markdown, response, responses,
                   textCalls, convCalls, thrown>>

\* Line 37: `!contentType || !contentType.includes("text/html")`
CTAccepted_Exact(ct) == ct = CT_TextHtml
CTAccepted(ct) == ct # NoHeader /\ ct # <<>> /\ Includes(ct, CT_TextHtml)

\* Line 46: `body.length > 10 * 1024 * 1024`
TooLarge_AtLimit(n) == n >= MaxBodyLength
TooLarge(n) == n > MaxBodyLength

\* Line 60: `!markdown || markdown.length === 0`
ConvFailed_NullOnly(m) == m.kind = "null"
ConvFailed(m) == m.kind \in {"null", "undefined"} \/ (m.kind = "array" /\ m.items = <<>>)

\* Line 66: `markdown[0].data`; reading index 0 of null or undefined, or
\* `.data` of a missing element, throws a TypeError.
DataAccessThrows(m) == m.kind # "array" \/ m.items = <<>>
FirstData_Last(m) == m.items[Len(m.items)]
FirstData(m) == m.items[1]

\* Lines 68-73: the headers passed to c.text
SuccessHeaders == HeaderMap("Content-Type", "text/markdown; charset=utf-8",
                            "Cache-Control", "public, max-age=3600, s-maxage=86400")

UpstreamMessage(u, statusText) == "Failed to fetch " \o UrlString(u) \o ": " \o statusText

\* Lines 74-87: the catch block of the handler
Classify_ByName(e) ==
    IF e.type = "HTTP" THEN e
    ELSE IF e.type \in {"DOMAbort", "ErrorAbortName"} THEN HTTPException(504, "Request timeout")
    ELSE HTTPException(500, "Internal server error while processing request")
Classify(e) ==
    IF e.type = "HTTP" THEN e
    ELSE IF e.type = "DOMAbort" THEN HTTPException(504, "Request timeout")
    ELSE HTTPException(500, "Internal server error while processing request")

\* The fetch promise rejects (line 26).
FetchReject ==
    /\ pc = "awaitFetch"
    /\ \E r \in {x \in FetchResults : x.kind = "reject"} :
          /\ fetchResp' = r
          /\ exc' = Thrown(r.exc)
          /\ thrown' = r.exc
    /\ pc' = "catch"
    /\ failedAt' = "fetch"
    /\ UNCHANGED <<urlParam, parsed, bodyLen, markdown, response, responses,
                   fetchCalls, textCalls, convCalls, stages>>

\* The fetch promise resolves (line 26); lines 28-43 run up to the await
\* on resp.text().
FetchResolve ==
    /\ pc = "awaitFetch"
    /\ \E r \in {x \in FetchResults : x.kind = "response"} :
          /\ fetchResp' = r
          /\ IF ~r.ok
             THEN /\ exc' = HTTPException(r.status, UpstreamMessage(urlParam, r.statusText))
                  /\ pc' = "catch"
                  /\ failedAt' = "fetch"
                  /\ UNCHANGED <<stages, textCalls>>
             ELSE IF ~CTAccepted(r.ctype)
             THEN /\ exc' = HTTPException(400, "Only HTML content is supported")
                  /\ pc' = "catch"
                  /\ failedAt' = "ctgate"
                  /\ stages' = Append(stages, "ctgate")
                  /\ UNCHANGED textCalls
             ELSE /\ pc' = "awaitText"
                  /\ textCalls' = textCalls + 1
                  /\ stages' = stages \o <<"ctgate", "read">>
                  /\ UNCHANGED <<exc, failedAt>>
    /\ UNCHANGED <<urlParam, parsed, bodyLen, markdown, response, responses, fetchCalls, convCalls, thrown>>

\* resp.text() rejects (line 43).
TextReject ==
    /\ pc = "awaitText"
    /\ \E k \in ExcKinds : exc' = Thrown(k) /\ thrown' = k
    /\ pc' = "catch"
    /\ failedAt' = "read"
    /\ UNCHANGED <<urlParam, parsed, fetchResp, bodyLen, markdown, response, responses,
                   fetchCalls, textCalls, convCalls, stages>>

\* resp.text() resolves (line 43); lines 46-58 run up to the await on
\* c.env.AI.toMarkdown.
TextResolve ==
    /\ pc = "awaitText"
    /\ \E n \in BodyLengths :
          /\ bodyLen' = n
          /\ IF TooLarge(n)
             THEN /\ exc' = HTTPException(413, "Content too large. Maximum size is 10MB")
                  /\ pc' = "catch"
                  /\ failedAt' = "size"
                  /\ stages' = Append(stages, "size")
                  /\ UNCHANGED convCalls
             ELSE /\ pc' = "awaitConv"
                  /\ convCalls' = convCalls + 1
                  /\ stages' = stages \o <<"size", "convert">>
                  /\ UNCHANGED <<exc, failedAt>>
    /\ UNCHANGED <<urlParam, parsed, fetchResp, markdown, response, responses, fetchCalls, textCalls,
                   thrown>>

\* toMarkdown rejects (line 53).
ConvReject ==
    /\ pc = "awaitConv"
    /\ \E m \in {x \in ConvResults : x.kind = "reject"} :
          /\ markdown' = m
          /\ exc' = Thrown(m.exc)
          /\ thrown' = m.exc
    /\ pc' = "catch"
    /\ failedAt' = "convert"
    /\ UNCHANGED <<urlParam, parsed, fetchResp, bodyLen, response, responses,
                   fetchCalls, textCalls, convCalls, stages>>

\* toMarkdown resolves (line 53); lines 60-73 run.
ConvResolve ==
    /\ pc = "awaitConv"
    /\ \E m \in {x \in ConvResults : x.kind # "reject"} :
          /\ markdown' = m
          /\ IF ConvFailed(m)
             THEN /\ exc' = HTTPException(500, "Failed to convert HTML to Markdown")
                  /\ pc' = "catch"
                  /\ failedAt' = "convert"
                  /\ UNCHANGED <<response, responses, thrown>>
             ELSE IF DataAccessThrows(m)
             THEN /\ exc' = Thrown("TypeError")
                  /\ thrown' = "TypeError"
                  /\ pc' = "catch"
                  /\ failedAt' = "convert"
                  /\ UNCHANGED <<response, responses>>
             ELSE /\ response' = WithTiming(HonoText(FirstData(m), SuccessHeaders))
                  /\ responses' = responses + 1
                  /\ pc' = "done"
                  /\ UNCHANGED <<exc, failedAt, thrown>>
    /\ UNCHANGED <<urlParam, parsed, fetchResp, bodyLen, fetchCalls, textCalls, convCalls, stages>>

\* The catch block (lines 74-87) rethrows an HTTPException to app.onError.
Catch ==
    /\ pc = "catch"
    /\ exc' = Classify(exc)
    /\ pc' = "onError"
    /\ UNCHANGED <<urlParam, parsed, fetchResp, bodyLen, markdown, response, responses,
                   fetchCalls, textCalls, convCalls, stages, failedAt, thrown>>

\* app.onError (lines 91-111). When c.json is given a null body status the
\* Response constructor throws a TypeError, which Hono's compose hands to
\* app.onError again, where it takes the generic branch.
OnError ==
    /\ pc = "onError"
    /\ response' = WithTiming(
         IF exc.type = "HTTP" /\ ~HonoJsonThrows(exc.status)
         THEN HonoJson(exc.message, exc.status)
         ELSE HonoJson("Internal Server Error", 500))
    /\ responses' = responses + 1
    /\ pc' = "done"
    /\ UNCHANGED <<urlParam, parsed, fetchResp, bodyLen, markdown, exc,
                   fetchCalls, textCalls, convCalls, stages, failedAt, thrown>>

Next ==
    \/ Validate
    \/ FetchReject
    \/ FetchResolve
    \/ TextReject
    \/ TextResolve
    \/ ConvReject
    \/ ConvResolve
    \/ Catch
    \/ OnError

Spec == Init /\ [][Next]_vars
(***************************************************************************)
(* Properties                                                              *)
(***************************************************************************)
CacheControlValue == "public, max-age=3600, s-maxage=86400"
InvalidUrlMessage == "Invalid URL format. Must be a valid HTTP or HTTPS URL"
InternalMessage == "Internal server error while processing request"
HttpProtocols == {<<"h","t","t","p",":">>, <<"h","t","t","p","s",":">>}
StageOrder == <<"presence", "validate", "fetch", "ctgate", "read", "size", "convert">>

\* C1: when the url is a valid http(s) URL, the fetch is ok with a text/html
\* Content-Type, the body is at most 10,485,760 characters, and the converter
\* returns a sequence with at least one element, the response is 200 and its
\* body is exactly element 0's data, whatever the other elements are.
C1_SuccessBody ==
    (pc = "done" /\ markdown.kind = "array" /\ markdown.items # <<>>)
        => /\ response.status = 200
           /\ response.kind = "text"
           /\ response.text = markdown.items[1]
C1_Witness ==
    pc = "done" /\ markdown.kind = "array" /\ Len(markdown.items) = 2
    /\ markdown.items[1] = "" /\ response.status = 200

\* C2: every 200 response carries Content-Type: text/plain; charset=UTF-8 and
\* Cache-Control: public, max-age=3600, s-maxage=86400 (the Content-Type the
\* handler passes to c.text is replaced by c.text's default).
C2_SuccessHeaders ==
    (pc = "done" /\ response.status = 200)
        => /\ "Content-Type" \in DOMAIN response.headers
           /\ "Cache-Control" \in DOMAIN response.headers
           /\ response.headers["Content-Type"] = "text/plain; charset=UTF-8"
           /\ response.headers["Cache-Control"] = CacheControlValue
C2_Witness == pc = "done" /\ response.status = 200 /\ convCalls = 1

\* C3: a missing or empty url gives 400 {error: "URL parameter is required",
\* status: 400}.
C3_MissingUrl ==
    (pc = "done" /\ urlParam \in {Absent, <<>>})
        => /\ response.status = 400
           /\ response.kind = "json"
           /\ response.error = "URL parameter is required"
           /\ response.jstatus = 400
C3_Witness == pc = "done" /\ urlParam = <<>>

\* C4: a non-empty url that fails URL parsing or whose scheme is not http or
\* https gives 400 {error: "Invalid URL format...", status: 400}; a url that
\* parses with scheme http or https never gets that error.
C4_InvalidUrl ==
    (pc = "done" /\ urlParam \notin {Absent, <<>>})
        => /\ parsed \in ParseURL(urlParam)
           /\ (~parsed.ok \/ parsed.protocol \notin HttpProtocols)
                 => /\ response.status = 400
                    /\ response.kind = "json"
                    /\ response.error = InvalidUrlMessage
                    /\ response.jstatus = 400
           /\ (parsed.ok /\ parsed.protocol \in HttpProtocols)
                 => response.error # InvalidUrlMessage
C4_Witness ==
    pc = "done" /\ parsed.ok /\ parsed.protocol \notin HttpProtocols
    /\ response.error = InvalidUrlMessage

\* C5: for every upstream response with ok = false, the response status is the
\* upstream status and the error is "Failed to fetch " + url + ": " + statusText,
\* with the body's status field equal to the upstream status.
C5_UpstreamError ==
    (pc = "done" /\ fetchResp.kind = "response" /\ ~fetchResp.ok)
        => /\ response.status = fetchResp.status
           /\ response.kind = "json"
           /\ response.error = "Failed to fetch " \o Join(urlParam) \o ": " \o fetchResp.statusText
           /\ response.jstatus = fetchResp.status

\* C6: an ok fetch whose Content-Type is absent or lacks "text/html" gives 400
\* "Only HTML content is supported" without reading the body; any Content-Type
\* containing "text/html" passes the gate.
C6_ContentTypeGate ==
    (pc = "done" /\ fetchResp.kind = "response" /\ fetchResp.ok)
        => LET ct == fetchResp.ctype
               rejected == ct = NoHeader \/ ~Includes(ct, CT_TextHtml) IN
           /\ rejected => /\ response.status = 400
                          /\ response.error = "Only HTML content is supported"
                          /\ textCalls = 0
           /\ ~rejected => /\ response.error # "Only HTML content is supported"
                           /\ textCalls = 1
C6_Witness ==
    pc = "done" /\ fetchResp.kind = "response" /\ fetchResp.ok
    /\ fetchResp.ctype = CT_TextHtmlCharset /\ textCalls = 1

\* C7: after an ok HTML fetch whose body was read, the response is 413
\* "Content too large. Maximum size is 10MB" exactly when the body is longer
\* than 10,485,760 characters; a body of exactly 10,485,760 characters reaches
\* the converter.
C7_SizeGate ==
    (pc = "done" /\ textCalls = 1 /\ bodyLen # 0)
        => /\ (bodyLen > 10485760)
                 <=> (response.status = 413
                      /\ response.error = "Content too large. Maximum size is 10MB")
           /\ bodyLen = 10485760 => convCalls = 1
C7_Witness == pc = "done" /\ bodyLen = 10485760 /\ convCalls = 1

\* C8: a converter result of null, undefined or an empty sequence gives 500
\* "Failed to convert HTML to Markdown".
C8_ConversionFailed ==
    (pc = "done" /\ (markdown.kind \in {"null", "undefined"}
                     \/ (markdown.kind = "array" /\ markdown.items = <<>>)))
        => /\ response.status = 500
           /\ response.error = "Failed to convert HTML to Markdown"
C8_Witness == pc = "done" /\ markdown.kind = "undefined"

\* C9: a DOMException named AbortError thrown by the Fetcher, the body read or
\* the converter gives 504 "Request timeout"; any other thrown value gives 500
\* "Internal server error while processing request"; no raw message is sent.
C9_Exceptions ==
    (pc = "done" /\ thrown # "none")
        => /\ thrown = "DOMAbort" => (response.status = 504 /\ response.error = "Request timeout")
           /\ thrown # "DOMAbort" => (response.status = 500 /\ response.error = InternalMessage)
C9_Witness == pc = "done" /\ thrown = "ErrorAbortName" /\ failedAt = "convert"

\* C10: the pipeline runs its stages in the fixed order and stops at the first
\* failure; each request gets exactly one response; the Fetcher is called at
\* most once and only for a present http(s) url; the body is read only after
\* the Content-Type gate passed; the converter is called at most once and only
\* after every gate passed.
C10_Pipeline ==
    /\ fetchCalls <= 1 /\ textCalls <= 1 /\ convCalls <= 1 /\ responses <= 1
    /\ pc = "done" => responses = 1
    /\ \E k \in 0..Len(StageOrder) : stages = SubSeq(StageOrder, 1, k)
    /\ failedAt # "none" => (stages # <<>> /\ stages[Len(stages)] = failedAt)
    /\ fetchCalls = 1 => (urlParam \notin {Absent, <<>>}
                          /\ parsed \in ParseURL(urlParam)
                          /\ parsed.ok
                          /\ parsed.protocol \in HttpProtocols)
    /\ textCalls = 1 => (fetchCalls = 1 /\ fetchResp.kind = "response" /\ fetchResp.ok
                         /\ fetchResp.ctype # NoHeader /\ Includes(fetchResp.ctype, CT_TextHtml))
    /\ convCalls = 1 => (textCalls = 1 /\ bodyLen <= 10485760)
C10_Witness == pc = "done" /\ convCalls = 1 /\ failedAt = "convert"

\* C11: every non-200 response is a JSON body {error, status} whose status
\* field equals the HTTP status; a failure raised with an explicit (message,
\* status) pair is sent verbatim; any other failure reaching app.onError gives
\* 500 "Internal Server Error"; a failure inside the handler never produces
\* that top-level message.
C11_ErrorMapper ==
    (pc = "done" /\ response.status # 200)
        => /\ response.kind = "json"
           /\ response.jstatus = response.status
           /\ exc.type = "HTTP" => (response.error = exc.message /\ response.status = exc.status)
           /\ exc.type # "HTTP" => (response.error = "Internal Server Error" /\ response.status = 500)
           /\ failedAt # "none" => response.error # "Internal Server Error"
====
